---- MODULE Spec2Model ----
(***************************************************************************)
(* OSRS item data: the item-name parser, the detail-image filename and URL *)
(* encoder (src/utils/imageUrl.ts), the id-list parser and the dataset     *)
(* build (src/scraper/scrape.ts), and the item catalog (index.ts).         *)
(*                                                                         *)
(* A string is a sequence of one-character strings.  A JavaScript object   *)
(* is a record; a property that is undefined is a field that is absent.    *)
(* A call is a record naming the function and its arguments; an optional   *)
(* argument that is not passed is an absent field.                         *)
(***************************************************************************)
EXTENDS Integers, Sequences, FiniteSets, TLC

VARIABLES
  call,      \* the call in flight: [fn |-> ..., <arguments>]
  pc,        \* "call": not yet run; "each": inside the row loop; "return"; "throw";
             \* the catalog: "loaded", and "changed" once the caller changed ret
  ret,       \* the value returned (meaningful when pc = "return")
  index,     \* scrapeItemIds: the index of the next <tr> handed to the callback
  items,     \* scrapeItemIds: the items pushed so far
  warnings,  \* the console.warn calls made so far
  itemsData, \* the catalog: the module-level array of index.ts
  aliased    \* the catalog: the array last returned IS the itemsData array

vars == <<call, pc, ret, index, items, warnings, itemsData, aliased>>

(***************************************************************************)
(* Bounds of the model.                                                    *)
(***************************************************************************)
MaxNameLen == 6   \* longest name handed to parseItemName
MaxFileLen == 3   \* longest name handed to the filename and URL builders
MaxIdLen == 6     \* longest id text handed to parseItemIds
MaxRows == 3      \* most data rows of the scraped table

\* Characters of the names handed to parseItemName.
NameChars == {" ", "#", "a", "b"}
\* Characters of the names handed to the filename and URL builders: the
\* space, the seven characters the encoder escapes, and two plain ones.
FileChars == {" ", "'", "(", ")", "#", "+", "?", "&", "a", "A"}
\* Characters of the id texts handed to parseItemIds.
IdChars == {"1", "2", " ", ",", "-", "x"}
\* Widths passed in options.
Widths == {96}

StringsUpTo(chars, n) == UNION {[1..k -> chars] : k \in 0..n}

(***************************************************************************)
(* String.prototype methods used by the program.                           *)
(***************************************************************************)
WhiteSpace == {" "}

RECURSIVE TrimStart(_)
TrimStart(s) ==
  IF s = <<>> THEN <<>>
  ELSE IF Head(s) \in WhiteSpace THEN TrimStart(Tail(s)) ELSE s

RECURSIVE TrimEnd(_)
TrimEnd(s) ==
  IF s = <<>> THEN <<>>
  ELSE IF s[Len(s)] \in WhiteSpace THEN TrimEnd(SubSeq(s, 1, Len(s) - 1)) ELSE s

\* s.trim()
Trim(s) == TrimEnd(TrimStart(s))

\* s.includes(c), c one character
Includes(s, c) == \E i \in 1..Len(s) : s[i] = c

\* s.indexOf(c), 1-based; 0 when c does not occur
IndexOf(s, c) ==
  IF Includes(s, c)
  THEN CHOOSE i \in 1..Len(s) : s[i] = c /\ \A j \in 1..(i - 1) : s[j] # c
  ELSE 0

\* s.split(c): the pieces between EVERY occurrence of c
RECURSIVE Split(_, _)
Split(s, c) ==
  IF ~Includes(s, c) THEN <<s>>
  ELSE LET i == IndexOf(s, c)
       IN  <<SubSeq(s, 1, i - 1)>> \o Split(SubSeq(s, i + 1, Len(s)), c)

\* s.replace(/c/g, r): every occurrence of the character c replaced by r
RECURSIVE ReplaceAll(_, _, _)
ReplaceAll(s, c, r) ==
  IF s = <<>> THEN <<>>
  ELSE (IF Head(s) = c THEN r ELSE <<Head(s)>>) \o ReplaceAll(Tail(s), c, r)

LowerOf(c) == CASE c = "A" -> "a" [] c = "B" -> "b" [] OTHER -> c

\* s.toLowerCase()
ToLowerCase(s) == [i \in 1..Len(s) |-> LowerOf(s[i])]

StartsWith(s, c) == Len(s) >= 1 /\ s[1] = c
EndsWith(s, c) == Len(s) >= 1 /\ s[Len(s)] = c

DigitChars == <<"0", "1", "2", "3", "4", "5", "6", "7", "8", "9">>

\* `${n}` for an integer n >= 0
RECURSIVE NumberToString(_)
NumberToString(n) ==
  IF n < 10 THEN <<DigitChars[n + 1]>>
  ELSE NumberToString(n \div 10) \o <<DigitChars[(n % 10) + 1]>>

(***************************************************************************)
(* src/utils/imageUrl.ts                                                   *)
(***************************************************************************)
WIKI_IMAGE_BASE_URL ==
  <<"h", "t", "t", "p", "s", ":", "/", "/", "o", "l", "d", "s", "c", "h", "o",
    "o", "l", ".", "r", "u", "n", "e", "s", "c", "a", "p", "e", ".", "w", "i",
    "k", "i", "/", "i", "m", "a", "g", "e", "s">>
DEFAULT_THUMB_WIDTH == 120

\* const [baseName, variant] = parts; { baseName: baseName.trim(),
\* variant: variant?.trim() }: variant is undefined when parts has one piece
BaseAndVariant(parts) ==
  IF Len(parts) >= 2
  THEN [baseName |-> Trim(parts[1]), variant |-> Trim(parts[2])]
  ELSE [baseName |-> Trim(parts[1])]

\* parseItemName without the trim of a name that has no '#'
parseItemNameUntrimmed(itemName) ==
  IF Includes(Trim(itemName), "#")
  THEN BaseAndVariant(Split(Trim(itemName), "#"))
  ELSE [baseName |-> itemName]

parseItemName(itemName) ==
  LET trimmed == Trim(itemName)
  IN  IF Includes(trimmed, "#")
      THEN BaseAndVariant(Split(trimmed, "#"))
      ELSE [baseName |-> trimmed]

\* the folding without the toLowerCase of the variant
VariantFoldedKeepCase(name, includeVariant) ==
  IF Includes(name, "#")
  THEN LET parts == Split(name, "#")
           trimmedBase == Trim(parts[1])
           trimmedVariant == IF Len(parts) >= 2 THEN Trim(parts[2]) ELSE <<>>
       IN  IF trimmedVariant # <<>> /\ includeVariant
           THEN IF StartsWith(trimmedVariant, "(") /\ EndsWith(trimmedVariant, ")")
                THEN trimmedBase \o <<" ">> \o trimmedVariant
                ELSE trimmedBase \o <<" ", "(">> \o trimmedVariant \o <<")">>
           ELSE trimmedBase
  ELSE name

\* lines 23-39: the name the filename is built from
VariantFolded(name, includeVariant) ==
  IF Includes(name, "#")
  THEN LET parts == Split(name, "#")
           trimmedBase == Trim(parts[1])
           hasVariant == Len(parts) >= 2
           trimmedVariant == IF hasVariant THEN Trim(parts[2]) ELSE <<>>
       IN  IF hasVariant /\ trimmedVariant # <<>> /\ includeVariant
           THEN LET lowerVariant == ToLowerCase(trimmedVariant)
                    hasParens == StartsWith(lowerVariant, "(")
                                 /\ EndsWith(lowerVariant, ")")
                IN  IF hasParens
                    THEN trimmedBase \o <<" ">> \o lowerVariant
                    ELSE trimmedBase \o <<" ", "(">> \o lowerVariant \o <<")">>
           ELSE trimmedBase
  ELSE name

\* the chain with '%' escaped after the apostrophe: %27 becomes %2527
EncodeSpecialDouble(name) ==
  LET r1 == ReplaceAll(name, "'", <<"%", "2", "7">>)
      r0 == ReplaceAll(r1, "%", <<"%", "2", "5">>)
      r2 == ReplaceAll(r0, "(", <<"%", "2", "8">>)
      r3 == ReplaceAll(r2, ")", <<"%", "2", "9">>)
      r4 == ReplaceAll(r3, "#", <<"%", "2", "3">>)
      r5 == ReplaceAll(r4, "+", <<"%", "2", "B">>)
      r6 == ReplaceAll(r5, "?", <<"%", "3", "F">>)
      r7 == ReplaceAll(r6, "&", <<"%", "2", "6">>)
  IN  r7

\* lines 47-54: the chain of replace calls, in the order of the code
EncodeSpecial(name) ==
  LET r1 == ReplaceAll(name, "'", <<"%", "2", "7">>)
      r2 == ReplaceAll(r1, "(", <<"%", "2", "8">>)
      r3 == ReplaceAll(r2, ")", <<"%", "2", "9">>)
      r4 == ReplaceAll(r3, "#", <<"%", "2", "3">>)
      r5 == ReplaceAll(r4, "+", <<"%", "2", "B">>)
      r6 == ReplaceAll(r5, "?", <<"%", "3", "F">>)
      r7 == ReplaceAll(r6, "&", <<"%", "2", "6">>)
  IN  r7

\* constructImageFilename folding the variant in whatever includeVariant says
constructImageFilenameKeepVariant(itemName, includeVariant) ==
  EncodeSpecial(ReplaceAll(VariantFolded(Trim(itemName), TRUE), " ", <<"_">>))
    \o <<"_", "d", "e", "t", "a", "i", "l", ".", "p", "n", "g">>

constructImageFilename(itemName, includeVariant) ==
  LET name1 == VariantFolded(Trim(itemName), includeVariant)
      name2 == ReplaceAll(name1, " ", <<"_">>)
      name3 == EncodeSpecial(name2)
  IN  name3 \o <<"_", "d", "e", "t", "a", "i", "l", ".", "p", "n", "g">>

\* the default of the parameter includeVariant (line 16)
includeVariantDefault == FALSE

constructBaseImageFilename(itemName) ==
  constructImageFilename(itemName, includeVariantDefault)

\* getItemImageUrl with the width option ignored
getItemImageUrlFixedWidth(itemName, options) ==
  LET useThumb == IF "useThumb" \in DOMAIN options
                  THEN options.useThumb ELSE TRUE
      filename == constructImageFilename(itemName, includeVariantDefault)
  IN  IF useThumb
      THEN WIKI_IMAGE_BASE_URL \o <<"/", "t", "h", "u", "m", "b", "/">>
             \o filename \o <<"/">> \o NumberToString(DEFAULT_THUMB_WIDTH)
             \o <<"p", "x", "-">> \o filename
      ELSE WIKI_IMAGE_BASE_URL \o <<"/">> \o filename

getItemImageUrl(itemName, options) ==
  LET width == IF "width" \in DOMAIN options
               THEN options.width ELSE DEFAULT_THUMB_WIDTH
      useThumb == IF "useThumb" \in DOMAIN options
                  THEN options.useThumb ELSE TRUE
      filename == constructImageFilename(itemName, includeVariantDefault)
  IN  IF useThumb
      THEN WIKI_IMAGE_BASE_URL \o <<"/", "t", "h", "u", "m", "b", "/">>
             \o filename \o <<"/">> \o NumberToString(width)
             \o <<"p", "x", "-">> \o filename
      ELSE WIKI_IMAGE_BASE_URL \o <<"/">> \o filename

\* getItemImageUrls with a variantUrl that reflects the variant
getItemImageUrlsVariantAware(itemName, options) ==
  [variantUrl |-> WIKI_IMAGE_BASE_URL \o <<"/">> \o constructImageFilename(itemName, TRUE),
   baseUrl |-> getItemImageUrl(itemName, options)]

getItemImageUrls(itemName, options) ==
  LET imageUrl == getItemImageUrl(itemName, options)
  IN  [variantUrl |-> imageUrl, baseUrl |-> imageUrl]

(***************************************************************************)
(* The calls of the name functions.                                        *)
(***************************************************************************)
\* ImageUrlOptions: each of width and useThumb given or not
Options ==
  {[f \in {} |-> TRUE]}
  \cup {[width |-> w] : w \in Widths}
  \cup {[useThumb |-> b] : b \in BOOLEAN}
  \cup {[width |-> w, useThumb |-> b] : w \in Widths, b \in BOOLEAN}

\* an options argument that is not passed defaults to {}
NoOptions == [f \in {} |-> TRUE]
OptionsOf(c) == IF "options" \in DOMAIN c THEN c.options ELSE NoOptions
IncludeVariantOf(c) ==
  IF "includeVariant" \in DOMAIN c THEN c.includeVariant ELSE includeVariantDefault

\* a call of one of the exported functions, each optional argument given or not
InitNames ==
  /\ \/ \E n \in StringsUpTo(NameChars, MaxNameLen) :
            call = [fn |-> "parseItemName", itemName |-> n]
     \/ \E n \in StringsUpTo(FileChars, MaxFileLen) :
            \/ call = [fn |-> "constructImageFilename", itemName |-> n]
            \/ \E b \in BOOLEAN :
                  call = [fn |-> "constructImageFilename", itemName |-> n,
                          includeVariant |-> b]
            \/ call = [fn |-> "constructBaseImageFilename", itemName |-> n]
            \/ \E f \in {"getItemImageUrl", "getItemImageUrls"} :
                  \/ call = [fn |-> f, itemName |-> n]
                  \/ \E o \in Options :
                        call = [fn |-> f, itemName |-> n, options |-> o]
  /\ pc = "call"
  /\ ret = <<>>
  /\ index = 0
  /\ items = <<>>
  /\ warnings = <<>>
  /\ itemsData = <<>>
  /\ aliased = FALSE

Return(v) ==
  /\ ret' = v
  /\ pc' = "return"
  /\ UNCHANGED <<call, index, items, warnings, itemsData, aliased>>

ParseItemName ==
  /\ pc = "call" /\ call.fn = "parseItemName"
  /\ Return(parseItemName(call.itemName))

ConstructImageFilename ==
  /\ pc = "call" /\ call.fn = "constructImageFilename"
  /\ Return(constructImageFilename(call.itemName, IncludeVariantOf(call)))

ConstructBaseImageFilename ==
  /\ pc = "call" /\ call.fn = "constructBaseImageFilename"
  /\ Return(constructBaseImageFilename(call.itemName))

GetItemImageUrl ==
  /\ pc = "call" /\ call.fn = "getItemImageUrl"
  /\ Return(getItemImageUrl(call.itemName, OptionsOf(call)))

GetItemImageUrls ==
  /\ pc = "call" /\ call.fn = "getItemImageUrls"
  /\ Return(getItemImageUrls(call.itemName, OptionsOf(call)))

NextNames ==
  \/ ParseItemName
  \/ ConstructImageFilename
  \/ ConstructBaseImageFilename
  \/ GetItemImageUrl
  \/ GetItemImageUrls

SpecNames == InitNames /\ [][NextNames]_vars

(***************************************************************************)
(* src/scraper/scrape.ts                                                   *)
(*                                                                         *)
(* A JavaScript number is [kind |-> "number", value |-> n] or NaN; an      *)
(* array is [kind |-> "array", elems |-> <<...>>].                         *)
(***************************************************************************)
Num(n) == [kind |-> "number", value |-> n]
NaN == [kind |-> "NaN"]
Undefined == [kind |-> "undefined"]
Arr(elems) == [kind |-> "array", elems |-> elems]

IsDigit(c) == \E d \in 1..10 : DigitChars[d] = c
DigitValue(c) == (CHOOSE d \in 1..10 : DigitChars[d] = c) - 1

\* the longest prefix of s made of digits
RECURSIVE DigitPrefix(_)
DigitPrefix(s) ==
  IF s = <<>> \/ ~IsDigit(Head(s)) THEN <<>>
  ELSE <<Head(s)>> \o DigitPrefix(Tail(s))

RECURSIVE DecimalValue(_)
DecimalValue(ds) ==
  IF ds = <<>> THEN 0
  ELSE 10 * DecimalValue(SubSeq(ds, 1, Len(ds) - 1)) + DigitValue(ds[Len(ds)])

\* parseInt(s, 10): leading white space and a sign are skipped, the longest
\* prefix of digits is the value, whatever follows is ignored; no digit: NaN
parseInt(s) ==
  LET t == TrimStart(s)
      signed == t # <<>> /\ Head(t) \in {"+", "-"}
      sign == IF t # <<>> /\ Head(t) = "-" THEN -1 ELSE 1
      ds == DigitPrefix(IF signed THEN Tail(t) ELSE t)
  IN  IF ds = <<>> THEN NaN ELSE Num(sign * DecimalValue(ds))

\* a <= b of two values: false when either is NaN or undefined
LessEq(a, b) == a.kind = "number" /\ b.kind = "number" /\ a.value <= b.value

\* for (let i = start; i <= end; i++) ids.push(i): the loop body runs for
\* i = start, start + 1, ..., end, and not at all when start <= end is false
RangeLoop(start, end, ids) ==
  IF LessEq(start, end)
  THEN ids \o [k \in 1..(end.value - start.value + 1) |-> Num(start.value + k - 1)]
  ELSE ids

\* const [start, end] = nums: an element that is missing is undefined
Nth(xs, k) == IF k <= Len(xs) THEN xs[k] ELSE Undefined

\* the range loop stopping before end
PushRangeExclusive(text, ids) ==
  LET pieces == Split(text, "-")
      nums == [k \in 1..Len(pieces) |-> parseInt(Trim(pieces[k]))]
      end == Nth(nums, 2)
  IN  RangeLoop(Nth(nums, 1),
                IF end.kind = "number" THEN Num(end.value - 1) ELSE end, ids)

\* lines 30-33 and 44-48: ids with the range of text "A-B" pushed
PushRange(text, ids) ==
  LET pieces == Split(text, "-")
      nums == [k \in 1..Len(pieces) |-> parseInt(Trim(pieces[k]))]
  IN  RangeLoop(Nth(nums, 1), Nth(nums, 2), ids)

\* lines 26-37: for (const part of parts) ...
RECURSIVE PushParts(_, _)
PushParts(parts, ids) ==
  IF parts = <<>> THEN ids
  ELSE LET partTrimmed == Trim(Head(parts))
       IN  PushParts(Tail(parts),
                     IF Includes(partTrimmed, "-")
                     THEN PushRange(partTrimmed, ids)
                     ELSE Append(ids, parseInt(partTrimmed)))

parseItemIds(idString) ==
  LET trimmed == Trim(idString)
  IN  IF Includes(trimmed, ",")
      THEN Arr(PushParts(Split(trimmed, ","), <<>>))
      ELSE IF Includes(trimmed, "-")
           THEN Arr(PushRange(trimmed, <<>>))
           ELSE parseInt(trimmed)

InitIds ==
  /\ \E s \in StringsUpTo(IdChars, MaxIdLen) :
        call = [fn |-> "parseItemIds", idString |-> s]
  /\ pc = "call"
  /\ ret = <<>>
  /\ index = 0
  /\ items = <<>>
  /\ warnings = <<>>
  /\ itemsData = <<>>
  /\ aliased = FALSE

ParseItemIds ==
  /\ pc = "call" /\ call.fn = "parseItemIds"
  /\ Return(parseItemIds(call.idString))

NextIds == ParseItemIds

SpecIds == InitIds /\ [][NextIds]_vars

(***************************************************************************)
(* scrapeItemIds: the page is [ok, hasTable, rows]; rows are the <tr> of   *)
(* the first sortable wikitable, each the sequence of its <td> texts.      *)
(***************************************************************************)
\* lines 105-111: the item literal; a variant that is undefined is absent
OsrsItem(id, name, parsed, imageUrl) ==
  IF "variant" \in DOMAIN parsed
  THEN [id |-> id, name |-> name, baseName |-> parsed.baseName,
        variant |-> parsed.variant, imageUrl |-> imageUrl]
  ELSE [id |-> id, name |-> name, baseName |-> parsed.baseName,
        imageUrl |-> imageUrl]

\* the item with its base name stored as its name
BuildItemNamedByBase(itemName, itemIdString) ==
  OsrsItem(parseItemIds(itemIdString), parseItemName(itemName).baseName,
           parseItemName(itemName), getItemImageUrl(itemName, NoOptions))

\* lines 101-111: the body of the try block
BuildItem(itemName, itemIdString) ==
  OsrsItem(parseItemIds(itemIdString), itemName, parseItemName(itemName),
           getItemImageUrl(itemName, NoOptions))

\* whether the try block throws: parseItemIds, parseItemName and
\* getItemImageUrl have no throw and parseInt returns NaN, so it never does
TryThrows(itemName, itemIdString) == FALSE

Headers == {<<>>, <<<<"a">>, <<"1">>>>}

Rows ==
  { <<<<"a">>, <<"1">>>>,
    <<<<"a", "#", "b">>, <<"1", "-", "2">>>>,
    <<<<"#", "b">>, <<" ", "2", ",", "1">>>>,
    <<<<"b">>, <<"x">>>>,
    <<<<"b", "#">>, <<"1", ",", "x">>>>,
    <<<<"a">>>>,
    <<<<>>, <<"1">>>>,
    <<<<" ", "b", " ">>, <<" ">>>>,
    <<<<" ", "b", " ">>, <<"2", "-", "1">>>>,
    <<<<"a", " ", "b">>, <<" ", "2", " ">>, <<"x">>>> }

\* the page fetched: the request failed, the page has no table, the table
\* has no row, or it has a first row and up to MaxRows more
InitBuild ==
  /\ \/ \E p \in {[ok |-> FALSE, hasTable |-> FALSE, rows |-> <<>>],
                    [ok |-> TRUE, hasTable |-> FALSE, rows |-> <<>>],
                    [ok |-> TRUE, hasTable |-> TRUE, rows |-> <<>>]} :
            call = [fn |-> "scrapeItemIds", page |-> p]
     \/ \E h \in Headers, d \in StringsUpTo(Rows, MaxRows) :
            call = [fn |-> "scrapeItemIds",
                    page |-> [ok |-> TRUE, hasTable |-> TRUE, rows |-> <<h>> \o d]]
  /\ pc = "call"
  /\ ret = <<>>
  /\ index = 0
  /\ items = <<>>
  /\ warnings = <<>>
  /\ itemsData = <<>>
  /\ aliased = FALSE

\* lines 59-79: fetch the page and find the table
ScrapeStart ==
  /\ pc = "call" /\ call.fn = "scrapeItemIds"
  /\ IF ~call.page.ok
     THEN pc' = "throw" /\ ret' = "Failed to fetch Item_IDs page"
     ELSE IF ~call.page.hasTable
          THEN pc' = "throw" /\ ret' = "Could not find the item table on the page"
          ELSE pc' = "each" /\ ret' = ret
  /\ index' = 0
  /\ items' = <<>>
  /\ UNCHANGED <<call, warnings, itemsData, aliased>>

\* lines 81-117: the callback of table.find('tr').each, on row number index
EachRow ==
  /\ pc = "each" /\ index < Len(call.page.rows)
  /\ LET cells == call.page.rows[index + 1]
     IN  IF index = 0 \/ Len(cells) < 2
         THEN UNCHANGED <<items, warnings>>
         ELSE LET itemName == Trim(cells[1])
                  itemIdString == Trim(cells[2])
              IN  IF itemName = <<>> \/ itemIdString = <<>>
                  THEN UNCHANGED <<items, warnings>>
                  ELSE IF TryThrows(itemName, itemIdString)
                       THEN /\ warnings' = Append(warnings, <<itemName, itemIdString>>)
                            /\ UNCHANGED items
                       ELSE /\ items' = Append(items, BuildItem(itemName, itemIdString))
                            /\ UNCHANGED warnings
  /\ index' = index + 1
  /\ UNCHANGED <<call, pc, ret, itemsData, aliased>>

\* lines 119-120: return items
ScrapeReturn ==
  /\ pc = "each" /\ index = Len(call.page.rows)
  /\ ret' = items
  /\ pc' = "return"
  /\ UNCHANGED <<call, index, items, warnings, itemsData, aliased>>

NextBuild == ScrapeStart \/ EachRow \/ ScrapeReturn

SpecBuild == InitBuild /\ [][NextBuild]_vars

(***************************************************************************)
(* index.ts: the item catalog over data/items.json.                        *)
(***************************************************************************)
MaxItems == 3     \* most entries of the dataset file

\* the entries the dataset files are made of, as the build writes them:
\* a scalar id, an id array, a variant, no variant, an empty variant
\* (which JSON keeps), an empty id array
Pool ==
  { BuildItem(<<"a">>, <<"1">>),
    BuildItem(<<"a", "#", "B">>, <<"1", "-", "2">>),
    BuildItem(<<"A", "b">>, <<"2">>),
    BuildItem(<<"b", "#">>, <<"2", "-", "1">>) }

QueryIds == {1, 2, 3}
QueryNames == {<<"a">>, <<"a", "#", "B">>, <<"b">>}
QueryTexts == {<<"a">>, <<"B">>, <<"a", "B">>}
QueryLimits == {-1, 0, 1, 2}
QueryBaseNames == {<<"a">>, <<"b">>, <<"B">>}

\* an ItemFilter from its optional members (<<>>: absent, <<v>>: v)
Member(name, opt) == IF opt = <<>> THEN <<>> ELSE [f \in {name} |-> opt[1]]

ItemFilter(n, h, l) ==
  Member("nameContains", n) @@ Member("hasVariant", h) @@ Member("limit", l)

\* String.prototype.includes of a string
IncludesString(s, q) ==
  \E i \in 0..(Len(s) - Len(q)) : SubSeq(s, i + 1, i + Len(q)) = q

\* Array.prototype.slice(0, n) for n > 0
SliceTo(a, n) == SubSeq(a, 1, IF n < Len(a) THEN n ELSE Len(a))

\* Array.prototype.find, from the elements the test holds for: the first
\* of them, undefined when there is none
Find(found) == IF found = <<>> THEN Undefined ELSE found[1]

\* the partial dataset a broken file would leave behind
LoadedItemsPartial(file) ==
  CASE file.kind = "items" -> file.data
    [] file.kind = "unparseable" -> <<BuildItem(<<"a">>, <<"1">>)>>
    [] OTHER -> <<>>

\* lines 12-20: itemsData after the try/catch around require
LoadedItems(file) ==
  IF file.kind = "items" THEN file.data ELSE <<>>

\* the test with the Array.isArray branch left out
IdMatchesScalarOnly(item, id) == item.id = Num(id)

\* lines 29-34, 44-49: the find/filter callback of the id lookups
IdMatches(item, id) ==
  IF item.id.kind = "array"
  THEN \E k \in 1..Len(item.id.elems) : item.id.elems[k] = Num(id)
  ELSE item.id = Num(id)

\* lines 28-35
getItemById(data, id) ==
  LET Test(item) == IdMatches(item, id) IN Find(SelectSeq(data, Test))

\* lines 43-50
getItemsById(data, id) ==
  LET Test(item) == IdMatches(item, id) IN SelectSeq(data, Test)

\* lines 58-60
getItemByName(data, name) ==
  LET Test(item) == item.name = name IN Find(SelectSeq(data, Test))

\* the search without the two toLowerCase calls
searchItemsByNameCaseSensitive(data, query, limit) ==
  LET Test(item) == IncludesString(item.name, query)
      results == SelectSeq(data, Test)
  IN  IF limit.kind = "number" /\ limit.value # 0 /\ limit.value > 0
      THEN SliceTo(results, limit.value)
      ELSE results

\* lines 69-80
searchItemsByName(data, query, limit) ==
  LET lowerQuery == ToLowerCase(query)
      Test(item) == IncludesString(ToLowerCase(item.name), lowerQuery)
      results == SelectSeq(data, Test)
  IN  IF limit.kind = "number" /\ limit.value # 0 /\ limit.value > 0
      THEN SliceTo(results, limit.value)
      ELSE results

\* lines 92-98: the nameContains step
FilterByName(results, filter) ==
  IF "nameContains" \in DOMAIN filter
  THEN LET lowerQuery == ToLowerCase(filter.nameContains)
           Test(item) == IncludesString(ToLowerCase(item.name), lowerQuery)
       IN  SelectSeq(results, Test)
  ELSE results

\* lines 100-104: the hasVariant step
FilterByVariant(results, filter) ==
  IF "hasVariant" \in DOMAIN filter
  THEN LET Test(item) == IF filter.hasVariant
                         THEN "variant" \in DOMAIN item
                         ELSE "variant" \notin DOMAIN item
       IN  SelectSeq(results, Test)
  ELSE results

\* lines 106-108: the limit step
FilterByLimit(results, filter) ==
  IF "limit" \in DOMAIN filter /\ filter.limit # 0 /\ filter.limit > 0
  THEN SliceTo(results, filter.limit)
  ELSE results

\* the limit taken before the predicates
getAllItemsLimitFirst(data, filter) ==
  IF filter # Undefined
  THEN FilterByVariant(FilterByName(FilterByLimit(data, filter), filter), filter)
  ELSE data

\* lines 88-111
getAllItems(data, filter) ==
  IF filter # Undefined
  THEN FilterByLimit(FilterByVariant(FilterByName(data, filter), filter), filter)
  ELSE data

\* lines 89-110: `results` is still the itemsData array itself when no step
\* assigned it (filter and slice make a new array, even of every element)
ReturnsItemsData(filter) ==
  \/ filter = Undefined
  \/ /\ "nameContains" \notin DOMAIN filter
     /\ "hasVariant" \notin DOMAIN filter
     /\ ~("limit" \in DOMAIN filter /\ filter.limit # 0 /\ filter.limit > 0)

\* lines 118-120
getItemCount(data) == Len(data)

\* the UTF-16 code unit of a character
CodeUnit(c) ==
  CASE c = " " -> 32 [] c = "#" -> 35 [] c = "&" -> 38 [] c = "'" -> 39
    [] c = "(" -> 40 [] c = ")" -> 41 [] c = "+" -> 43 [] c = "-" -> 45
    [] c = "," -> 44 [] c = "1" -> 49 [] c = "2" -> 50 [] c = "?" -> 63
    [] c = "A" -> 65 [] c = "B" -> 66 [] c = "a" -> 97 [] c = "b" -> 98
    [] c = "x" -> 120

\* the default comparison of Array.prototype.sort: by code units
StringLess(s, t) ==
  \E i \in 1..(Len(t)) :
     /\ \A j \in 1..(i - 1) : j <= Len(s) /\ s[j] = t[j]
     /\ \/ i > Len(s)
        \/ CodeUnit(s[i]) < CodeUnit(t[i])

\* line 128-129: the Set after the forEach, in insertion order
RECURSIVE AddAll(_, _, _)
AddAll(baseNames, data, i) ==
  IF i > Len(data) THEN baseNames
  ELSE AddAll(IF \E k \in 1..Len(baseNames) : baseNames[k] = data[i].baseName
              THEN baseNames
              ELSE Append(baseNames, data[i].baseName), data, i + 1)

\* Array.prototype.sort() of strings
RECURSIVE Sort(_)
Sort(a) ==
  IF a = <<>> THEN <<>>
  ELSE LET rest == Sort(Tail(a))
           Before(s) == StringLess(s, a[1])
           NotBefore(s) == ~StringLess(s, a[1])
       IN  SelectSeq(rest, Before) \o <<a[1]>> \o SelectSeq(rest, NotBefore)

\* the base names without the sort
getUniqueBaseNamesUnsorted(data) == AddAll(<<>>, data, 1)

\* lines 127-131
getUniqueBaseNames(data) == Sort(AddAll(<<>>, data, 1))

\* lines 139-141
getItemVariants(data, baseName) ==
  LET Test(item) == item.baseName = baseName IN SelectSeq(data, Test)

\* the module is loaded over a dataset file that is missing, is not JSON,
\* or holds the entries of a build
InitCatalog ==
  /\ \/ \E kind \in {"missing", "unparseable"} :
          call = [fn |-> "require", file |-> [kind |-> kind]]
     \/ \E data \in StringsUpTo(Pool, MaxItems) :
          call = [fn |-> "require", file |-> [kind |-> "items", data |-> data]]
  /\ pc = "call"
  /\ ret = <<>>
  /\ index = 0
  /\ items = <<>>
  /\ warnings = <<>>
  /\ itemsData = <<>>
  /\ aliased = FALSE

\* lines 12-20: the module body
LoadItems ==
  /\ pc = "call" /\ call.fn = "require"
  /\ itemsData' = LoadedItems(call.file)
  /\ warnings' = IF call.file.kind = "items" THEN warnings
                 ELSE Append(warnings, "No item data found")
  /\ pc' = "loaded"
  /\ UNCHANGED <<call, ret, index, items, aliased>>

\* a query runs once the module is loaded; it returns a new value
Loaded == pc \in {"loaded", "return", "changed"}

Answer(c, v) ==
  /\ call' = c
  /\ ret' = v
  /\ pc' = "return"
  /\ aliased' = FALSE
  /\ UNCHANGED <<index, items, warnings, itemsData>>

GetItemById ==
  /\ Loaded
  /\ \E id \in QueryIds :
       Answer([fn |-> "getItemById", id |-> id], getItemById(itemsData, id))

GetItemsById ==
  /\ Loaded
  /\ \E id \in QueryIds :
       Answer([fn |-> "getItemsById", id |-> id], getItemsById(itemsData, id))

GetItemByName ==
  /\ Loaded
  /\ \E name \in QueryNames :
       Answer([fn |-> "getItemByName", name |-> name],
              getItemByName(itemsData, name))

SearchItemsByName ==
  /\ Loaded
  /\ \E query \in QueryTexts :
       \/ Answer([fn |-> "searchItemsByName", query |-> query],
                 searchItemsByName(itemsData, query, Undefined))
       \/ \E limit \in QueryLimits :
            Answer([fn |-> "searchItemsByName", query |-> query, limit |-> limit],
                   searchItemsByName(itemsData, query, Num(limit)))

\* the filters passed to getAllItems, and no filter
QueryFilters ==
  { ItemFilter(n, h, l) :
      n \in {<<>>} \cup {<<q>> : q \in {<<"a">>, <<"B">>}},
      h \in {<<>>, <<TRUE>>, <<FALSE>>},
      l \in {<<>>, <<0>>, <<1>>, <<2>>} }

GetAllItems ==
  /\ Loaded
  /\ \/ /\ call' = [fn |-> "getAllItems"]
        /\ ret' = getAllItems(itemsData, Undefined)
        /\ aliased' = ReturnsItemsData(Undefined)
     \/ \E filter \in QueryFilters :
          /\ call' = [fn |-> "getAllItems", filter |-> filter]
          /\ ret' = getAllItems(itemsData, filter)
          /\ aliased' = ReturnsItemsData(filter)
  /\ pc' = "return"
  /\ UNCHANGED <<index, items, warnings, itemsData>>

GetItemCount ==
  /\ Loaded
  /\ Answer([fn |-> "getItemCount"], getItemCount(itemsData))

\* the sort applied to the dataset itself
GetUniqueBaseNamesSortInPlace ==
  /\ Loaded
  /\ call' = [fn |-> "getUniqueBaseNames"]
  /\ ret' = getUniqueBaseNames(itemsData)
  /\ pc' = "return"
  /\ aliased' = FALSE
  /\ itemsData' = LET Before(x, y) == StringLess(x.baseName, y.baseName)
                  IN  SortSeq(itemsData, Before)
  /\ UNCHANGED <<index, items, warnings>>

GetUniqueBaseNames ==
  /\ Loaded
  /\ Answer([fn |-> "getUniqueBaseNames"], getUniqueBaseNames(itemsData))

GetItemVariants ==
  /\ Loaded
  /\ \E baseName \in QueryBaseNames :
       Answer([fn |-> "getItemVariants", baseName |-> baseName],
              getItemVariants(itemsData, baseName))

NextCatalog ==
  \/ LoadItems
  \/ GetItemById
  \/ GetItemsById
  \/ GetItemByName
  \/ SearchItemsByName
  \/ GetAllItems
  \/ GetItemCount
  \/ GetUniqueBaseNames
  \/ GetItemVariants

SpecCatalog == InitCatalog /\ [][NextCatalog]_vars

\* the queries that return an array
ArrayQueries ==
  {"getItemsById", "searchItemsByName", "getAllItems", "getUniqueBaseNames",
   "getItemVariants"}

\* a change the caller makes in place to the array it was handed
Changed(a, change) ==
  CASE change = "pop" -> SubSeq(a, 1, Len(a) - 1)
    [] change = "reverse" -> [i \in 1..Len(a) |-> a[Len(a) + 1 - i]]
    [] change = "push" -> Append(a, a[1])

\* the caller changes the returned array in place, once; the change is a
\* change of itemsData when the array is the itemsData array
CallerChanges ==
  /\ pc = "return" /\ call.fn \in ArrayQueries
  /\ \E change \in {"pop", "reverse", "push"} :
       /\ ret # <<>>
       /\ change = "push" => Len(ret) < MaxItems
       /\ ret' = Changed(ret, change)
  /\ itemsData' = IF aliased THEN ret' ELSE itemsData
  /\ pc' = "changed"
  /\ UNCHANGED <<call, index, items, warnings, aliased>>

NextCaller == NextCatalog \/ CallerChanges

SpecCaller == InitCatalog /\ [][NextCaller]_vars

Init == InitNames \/ InitIds \/ InitBuild \/ InitCatalog
Next == NextNames \/ NextIds \/ NextBuild \/ NextCaller
Spec == Init /\ [][Next]_vars

Returned(fn) == pc = "return" /\ call.fn = fn

(***************************************************************************)
(* Properties of the name parser and of the filename and URL encoder.      *)
(***************************************************************************)
Min(S) == CHOOSE x \in S : \A y \in S : x <= y
Max(S) == CHOOSE x \in S : \A y \in S : x >= y

\* s without its leading and trailing white space, by position
Trimmed(s) ==
  LET solid == {i \in 1..Len(s) : s[i] \notin WhiteSpace}
  IN  IF solid = {} THEN <<>> ELSE SubSeq(s, Min(solid), Max(solid))

BeforeFirst(s, c) == IF Includes(s, c) THEN SubSeq(s, 1, IndexOf(s, c) - 1) ELSE s
AfterFirst(s, c) == IF Includes(s, c) THEN SubSeq(s, IndexOf(s, c) + 1, Len(s)) ELSE <<>>

\* the variant text of a parse result, empty when there is none
VariantText(r) == IF "variant" \in DOMAIN r THEN r.variant ELSE <<>>

RECURSIVE Flatten(_)
Flatten(ss) == IF ss = <<>> THEN <<>> ELSE Head(ss) \o Flatten(Tail(ss))

\* C1: a name with a '#' is split at its first '#' only: baseName is the
\* trimmed text before it, variant the trimmed text of all that follows it,
\* further '#' included.
C1_SplitAtFirstHashOnly ==
  (Returned("parseItemName") /\ Includes(call.itemName, "#")) =>
    /\ ret.baseName = Trimmed(BeforeFirst(call.itemName, "#"))
    /\ VariantText(ret) = Trimmed(AfterFirst(call.itemName, "#"))

\* C2: when nothing but white space follows the '#', the result has no
\* variant (undefined), not an empty string.
C2_NoVariantWhenNothingFollows ==
  (/\ Returned("parseItemName")
   /\ Includes(call.itemName, "#")
   /\ Trimmed(AfterFirst(call.itemName, "#")) = <<>>) =>
    "variant" \notin DOMAIN ret

\* C4: a name with no '#' gives no variant and baseName = the trimmed name;
\* parseItemName of a returned ('#'-free) baseName gives that baseName back
\* with no variant.
C4_NoHashFixedPoint ==
  Returned("parseItemName") =>
    /\ ~Includes(call.itemName, "#") =>
         /\ "variant" \notin DOMAIN ret
         /\ ret.baseName = Trimmed(call.itemName)
    /\ ~Includes(ret.baseName, "#") =>
         parseItemName(ret.baseName) = [baseName |-> ret.baseName]

C4_Witness ==
  /\ Returned("parseItemName")
  /\ call.itemName = <<" ", "a", " ", "b", " ">>
  /\ ret = [baseName |-> <<"a", " ", "b">>]

\* the escape of one character of the base name
Escaped(c) ==
  CASE c = " " -> <<"_">>
    [] c = "'" -> <<"%", "2", "7">>
    [] c = "(" -> <<"%", "2", "8">>
    [] c = ")" -> <<"%", "2", "9">>
    [] c = "#" -> <<"%", "2", "3">>
    [] c = "+" -> <<"%", "2", "B">>
    [] c = "?" -> <<"%", "3", "F">>
    [] c = "&" -> <<"%", "2", "6">>
    [] OTHER -> <<c>>

\* the filename of a base name: each character escaped once, then the suffix
FilenameOfBase(b) ==
  Flatten([i \in 1..Len(b) |-> Escaped(b[i])])
    \o <<"_", "d", "e", "t", "a", "i", "l", ".", "p", "n", "g">>

BaseOf(name) == Trimmed(BeforeFirst(Trimmed(name), "#"))

DefaultFilenameCall ==
  Returned("constructImageFilename") /\ "includeVariant" \notin DOMAIN call

C9_UrlFormat ==
  Returned("getItemImageUrl") =>
    LET o == OptionsOf(call)
        f == constructImageFilename(call.itemName, FALSE)
        w == IF "width" \in DOMAIN o THEN o.width ELSE 120
        host == <<"h", "t", "t", "p", "s", ":", "/", "/", "o", "l", "d", "s",
                  "c", "h", "o", "o", "l", ".", "r", "u", "n", "e", "s", "c",
                  "a", "p", "e", ".", "w", "i", "k", "i">>
    IN  IF "useThumb" \in DOMAIN o /\ ~o.useThumb
        THEN ret = host \o <<"/", "i", "m", "a", "g", "e", "s", "/">> \o f
        ELSE ret = host \o <<"/", "i", "m", "a", "g", "e", "s", "/", "t", "h", "u", "m", "b", "/">>
                     \o f \o <<"/">> \o NumberToString(w) \o <<"p", "x", "-">> \o f

C9_Witness ==
  /\ Returned("getItemImageUrl")
  /\ call.itemName = <<"a">>
  /\ OptionsOf(call) = [width |-> 96]
  /\ ret = WIKI_IMAGE_BASE_URL
             \o <<"/", "t", "h", "u", "m", "b", "/", "a", "_", "d", "e", "t", "a", "i", "l",
                  ".", "p", "n", "g", "/", "9", "6", "p", "x", "-", "a", "_", "d", "e",
                  "t", "a", "i", "l", ".", "p", "n", "g">>

IsDecimal(p) == p # <<>> /\ \A i \in 1..Len(p) : IsDigit(p[i])

\* the pieces of an id text: the texts between its commas and hyphens
Pieces(s) ==
  LET parts == Split(s, ",")
  IN  Flatten([k \in 1..Len(parts) |-> Split(parts[k], "-")])

\* integers joined by commas and hyphens, white space around each allowed;
\* a part between commas is an integer or A-B
WellFormedIdText(s) ==
  LET parts == Split(s, ",")
  IN  /\ \A k \in 1..Len(parts) : Len(Split(parts[k], "-")) <= 2
      /\ \A k \in 1..Len(Pieces(s)) : IsDecimal(Trimmed(Pieces(s)[k]))

\* an id text some piece of which is not an integer
MalformedIdText(s) == \E k \in 1..Len(Pieces(s)) : ~IsDecimal(Trimmed(Pieces(s)[k]))

ValueOf(p) == DecimalValue(Trimmed(p))

\* A, A+1, ..., B
IntRange(a, b) == [k \in 1..(b - a + 1) |-> Num(a + k - 1)]

PartIds(part) ==
  IF Includes(part, "-")
  THEN IntRange(ValueOf(BeforeFirst(part, "-")), ValueOf(AfterFirst(part, "-")))
  ELSE <<Num(ValueOf(part))>>

ExpectedIds(s) ==
  LET parts == Split(s, ",")
  IN  IF Includes(s, ",")
      THEN Arr(Flatten([k \in 1..Len(parts) |-> PartIds(parts[k])]))
      ELSE IF Includes(s, "-") THEN Arr(PartIds(s)) ELSE Num(ValueOf(s))

\* C5: for a well-formed id text parseItemIds returns, with a comma, the
\* flat sequence of the parts' ranges and integers in part order; else with
\* a hyphen, the range A..B as a sequence; else the integer as a scalar.
C5_IdsOfWellFormedText ==
  (Returned("parseItemIds") /\ WellFormedIdText(call.idString)) =>
    ret = ExpectedIds(call.idString)

C5_Witness ==
  /\ Returned("parseItemIds")
  /\ call.idString = <<"1", " ", "-", "2", ",", "1">>
  /\ ret = Arr(<<Num(1), Num(2), Num(1)>>)

\* whether row number i (from 1) of the table is a data row with a name
\* and an id text
DataRow(rows, i) ==
  /\ i >= 2
  /\ Len(rows[i]) >= 2
  /\ Trimmed(rows[i][1]) # <<>>
  /\ Trimmed(rows[i][2]) # <<>>

\* the items of the data rows with an id text that is not malformed
RECURSIVE ItemsOfValidRows(_, _)
ItemsOfValidRows(rows, i) ==
  IF i > Len(rows) THEN <<>>
  ELSE (IF DataRow(rows, i) /\ ~MalformedIdText(rows[i][2])
        THEN <<BuildItem(Trimmed(rows[i][1]), Trimmed(rows[i][2]))>>
        ELSE <<>>) \o ItemsOfValidRows(rows, i + 1)

MalformedRows(rows) ==
  {i \in 1..Len(rows) : DataRow(rows, i) /\ MalformedIdText(rows[i][2])}

\* C6: a row with a malformed id text is skipped with a warning; the build
\* returns the items of all the other data rows, in row order.
C6_MalformedRowSkipped ==
  Returned("scrapeItemIds") =>
    /\ ret = ItemsOfValidRows(call.page.rows, 1)
    /\ Len(warnings) = Cardinality(MalformedRows(call.page.rows))

\* C3: an item built from a non-empty name has a non-empty baseName.
C3_BaseNameNonEmpty ==
  \A i \in 1..Len(items) : items[i].name # <<>> => items[i].baseName # <<>>

(***************************************************************************)
(* The variant in the filename.                                            *)
(***************************************************************************)
\* v in parentheses, unless it already starts with '(' and ends with ')'
InParens(v) ==
  IF Len(v) >= 1 /\ v[1] = "(" /\ v[Len(v)] = ")" THEN v ELSE <<"(">> \o v \o <<")">>

\* the filename of 'item (variant)', the variant lowercased
FilenameWithVariant(p) ==
  FilenameOfBase(p.baseName \o <<" ">> \o InParens(ToLowerCase(p.variant)))

Range(a) == {a[i] : i \in 1..Len(a)}

\* the entries of data at the indices in S, in the order of data
RECURSIVE Kept(_, _, _)
Kept(data, S, i) ==
  IF i > Len(data) THEN <<>>
  ELSE (IF i \in S THEN <<data[i]>> ELSE <<>>) \o Kept(data, S, i + 1)

\* the first n entries of a, all of them when there are fewer
FirstN(a, n) == [i \in 1..Min({n, Len(a)}) |-> a[i]]

\* the ids an entry carries
IdsOf(item) ==
  IF item.id.kind = "array"
  THEN {e.value : e \in {x \in Range(item.id.elems) : x.kind = "number"}}
  ELSE IF item.id.kind = "number" THEN {item.id.value} ELSE {}

MatchingId(data, id) == {i \in 1..Len(data) : id \in IdsOf(data[i])}

\* q occurs in s, letter case ignored
ContainsIgnoringCase(s, q) ==
  \E start \in 1..(Len(s) - Len(q) + 1) :
     \A j \in 1..Len(q) : LowerOf(s[start + j - 1]) = LowerOf(q[j])

MatchingName(data, q) == {i \in 1..Len(data) : ContainsIgnoringCase(data[i].name, q)}

\* C12: an entry matches when its scalar id is the query id or its id
\* sequence contains it; getItemsById returns the matching entries in
\* dataset order; getItemById returns the first of them, and undefined
\* exactly when there is none.
C12_IdLookup ==
  /\ Returned("getItemsById") =>
       ret = Kept(itemsData, MatchingId(itemsData, call.id), 1)
  /\ Returned("getItemById") =>
       LET matching == MatchingId(itemsData, call.id)
       IN  /\ ret = Undefined <=> matching = {}
           /\ matching # {} =>
                /\ ret = itemsData[Min(matching)]
                /\ ret = getItemsById(itemsData, call.id)[1]

C12_Witness ==
  /\ Returned("getItemById")
  /\ call.id = 2
  /\ Len(itemsData) = MaxItems
  /\ ret = itemsData[2]
  /\ ret.id = Arr(<<Num(1), Num(2)>>)
  /\ itemsData[3].id = Num(2)

\* whether an entry satisfies the predicates a filter gives
Satisfies(item, filter) ==
  /\ "nameContains" \in DOMAIN filter =>
       ContainsIgnoringCase(item.name, filter.nameContains)
  /\ "hasVariant" \in DOMAIN filter =>
       (filter.hasVariant <=> "variant" \in DOMAIN item)

FilterOf(c) == IF "filter" \in DOMAIN c THEN c.filter ELSE <<>>

C14_SearchThenLimit ==
  Returned("searchItemsByName") =>
    LET all == Kept(itemsData, MatchingName(itemsData, call.query), 1)
    IN  IF "limit" \in DOMAIN call /\ call.limit > 0
        THEN ret = FirstN(all, call.limit)
        ELSE ret = all

C14_Witness ==
  /\ Returned("searchItemsByName")
  /\ call = [fn |-> "searchItemsByName", query |-> <<"a", "B">>, limit |-> 1]
  /\ Len(itemsData) = MaxItems
  /\ itemsData[1].name = <<"a">>
  /\ itemsData[2].name = <<"A", "b">>
  /\ itemsData[3].name = <<"A", "b">>
  /\ ret = <<itemsData[2]>>

\* C15: getUniqueBaseNames is sorted ascending, has no duplicate, and its
\* elements are the baseName values of the dataset; getItemVariants(b) is
\* non-empty for exactly those b.
C15_UniqueSortedBaseNames ==
  /\ Returned("getUniqueBaseNames") =>
       /\ \A i, j \in 1..Len(ret) : i < j => StringLess(ret[i], ret[j])
       /\ Range(ret) = {itemsData[i].baseName : i \in 1..Len(itemsData)}
  /\ Returned("getItemVariants") =>
       (ret # <<>> <=> call.baseName \in Range(getUniqueBaseNames(itemsData)))

C15_Witness ==
  /\ Returned("getUniqueBaseNames")
  /\ Len(itemsData) = MaxItems
  /\ itemsData[1].baseName = <<"b">>
  /\ itemsData[2].baseName = <<"a">>
  /\ itemsData[3].baseName = <<"a">>
  /\ ret = <<<<"a">>, <<"b">>>>

\* the load found no dataset: it warned
LoadFailed == pc # "call" /\ warnings # <<>>

\* C16: after a load that found the dataset missing or unparseable the
\* catalog is empty and every query returns the empty result without
\* throwing: undefined, an empty sequence, or 0.
C16_EmptyAfterFailedLoad ==
  LoadFailed =>
    /\ itemsData = <<>>
    /\ pc # "throw"
    /\ pc = "return" =>
         CASE call.fn \in {"getItemById", "getItemByName"} -> ret = Undefined
           [] call.fn \in ArrayQueries -> ret = <<>>
           [] call.fn = "getItemCount" -> ret = 0

C16_Witness ==
  /\ LoadFailed
  /\ Returned("getItemCount")
  /\ ret = 0

\* C17: no query changes the dataset, so a query repeated with the same
\* arguments returns the same result.
C17_QueriesKeepDataset ==
  [][pc # "call" =>
       /\ itemsData' = itemsData
       /\ (pc = "return" /\ call' = call) => ret' = ret]_vars

C17_Witness ==
  /\ Returned("getUniqueBaseNames")
  /\ Len(itemsData) = 2
  /\ StringLess(itemsData[2].baseName, itemsData[1].baseName)
  /\ ret = <<itemsData[2].baseName, itemsData[1].baseName>>

\* C19: a change the caller makes in place to a returned sequence does not
\* change the dataset, so neither getItemCount nor any later result.
C19_ReturnedArrayIndependent ==
  [][(pc = "return" /\ pc' = "changed") => itemsData' = itemsData]_vars

(***************************************************************************)
(* Properties of the built items.                                          *)
(***************************************************************************)
DataRows(rows) == {i \in 1..Len(rows) : DataRow(rows, i)}

\* the k-th data row, in table order
RowOf(rows, k) ==
  CHOOSE i \in DataRows(rows) : Cardinality({j \in DataRows(rows) : j <= i}) = k

\* C18: the build returns one item per data row with at least two cells
\* and non-empty name and id text, in row order, none for the first row;
\* each item has the trimmed first cell as name, parseItemName(name) as
\* baseName and variant, the 120px thumbnail URL of the name as imageUrl
\* and parseItemIds of the second cell as id.
C18_ItemDerivedFromRow ==
  Returned("scrapeItemIds") =>
    LET rows == call.page.rows
    IN  /\ Len(ret) = Cardinality(DataRows(rows))
        /\ \A k \in 1..Len(ret) :
             LET cells == rows[RowOf(rows, k)]
                 name == Trimmed(cells[1])
                 filename == constructImageFilename(name, FALSE)
             IN  /\ ret[k].name = name
                 /\ ret[k].baseName = parseItemName(name).baseName
                 /\ "variant" \in DOMAIN ret[k] <=>
                      "variant" \in DOMAIN parseItemName(name)
                 /\ VariantText(ret[k]) = VariantText(parseItemName(name))
                 /\ ret[k].imageUrl = getItemImageUrl(name, NoOptions)
                 /\ ret[k].imageUrl =
                      WIKI_IMAGE_BASE_URL \o <<"/", "t", "h", "u", "m", "b", "/">>
                        \o filename \o <<"/", "1", "2", "0", "p", "x", "-">> \o filename
                 /\ ret[k].id = parseItemIds(cells[2])

C18_Witness ==
  /\ Returned("scrapeItemIds")
  /\ Len(call.page.rows) = MaxRows + 1
  /\ call.page.rows[1] = <<<<"a">>, <<"1">>>>
  /\ Len(call.page.rows[2]) = 1
  /\ call.page.rows[3] = <<<<"#", "b">>, <<" ", "2", ",", "1">>>>
  /\ Len(ret) = 2
  /\ ret[1].id = Arr(<<Num(2), Num(1)>>)
  /\ ret[2].name = <<"a", " ", "b">>

\* C20: an item built from a well-formed id text carries at least one id,
\* and an id lookup over the built items returns it.
C20_EveryItemHasAnId ==
  Returned("scrapeItemIds") =>
    \A k \in 1..Len(ret) :
       WellFormedIdText(call.page.rows[RowOf(call.page.rows, k)][2]) =>
         /\ IdsOf(ret[k]) # {}
         /\ \E id \in IdsOf(ret[k]) : ret[k] \in Range(getItemsById(ret, id))
====
